---- MODULE Spec2Model ----
(***************************************************************************)
(* The dashboard of hello-canton: the DamlApi client (token, package-id     *)
(* discovery, query / create wrappers) and the App component's handlers     *)
(* (login, logout, fetchAllContracts, Clear Cache, the creation form).      *)
(*                                                                          *)
(* One action is one run-to-completion turn of the JavaScript event loop:   *)
(* a user event or the arrival of an HTTP response, followed by every       *)
(* continuation that runs before the call chain next awaits a response.     *)
(* A response and its body (text() / json()) arrive as one event.           *)
(*                                                                          *)
(* Strings are sequences of atoms (<<"Create failed: ", "unauthorized">>),  *)
(* so that includes / startsWith / endsWith / split are computed; null and  *)
(* undefined are the empty sequence.                                        *)
(***************************************************************************)
EXTENDS Integers, Sequences, FiniteSets, TLC

\* Bounds of the model.
MaxTasks == 2
MaxPackages == 2
MaxCreates == 1

VARIABLES
    app,              \* which App component is built: "App" (frontend/src/App.js) or "Part000"
    mounted,          \* the useEffect of App has run
    token,            \* DamlApi.token
    userId,           \* DamlApi.userId
    partyIdentifier,  \* DamlApi.partyIdentifier
    storage,          \* localStorage
    user,             \* useState of App
    loading,
    error,
    simpleTokens,
    escrows,
    collateralLocks,
    tasks,            \* the async call chains in flight, each awaiting one response
    ledger,           \* the active contracts of the ledger behind the JSON API
    ev                \* what the last turn did (history of length one)

vars == <<app, mounted, token, userId, partyIdentifier, storage, user, loading,
          error, simpleTokens, escrows, collateralLocks, tasks, ledger, ev>>

Null == <<>>

----------------------------------------------------------------------------
\* Strings

Lower(a) == CASE a = "Alice" -> "alice" [] a = "Bob" -> "bob" [] a = "Bobby" -> "bobby" [] OTHER -> a

toLowerCase(s) == [i \in 1..Len(s) |-> Lower(s[i])]

includes(s, sub) ==
    \E i \in 1..(Len(s) - Len(sub) + 1) : SubSeq(s, i, i + Len(sub) - 1) = sub

startsWith(s, p) == Len(s) >= Len(p) /\ SubSeq(s, 1, Len(p)) = p

endsWith(s, p) == Len(s) >= Len(p) /\ SubSeq(s, Len(s) - Len(p) + 1, Len(s)) = p

RECURSIVE split(_)
split(s) ==
    IF \A i \in 1..Len(s) : s[i] # ":"
    THEN <<s>>
    ELSE LET k == CHOOSE i \in 1..Len(s) : s[i] = ":" /\ \A j \in 1..(i - 1) : s[j] # ":"
         IN  <<SubSeq(s, 1, k - 1)>> \o split(SubSeq(s, k + 1, Len(s)))

NumStr(n) == <<"0", "1", "2", "3", "4", "5">>[n + 1]

\* `${packageId}:SimpleToken:SimpleToken`
TemplateId(packageId, name) == packageId \o <<":", name, ":", name>>

\* 'SimpleToken:SimpleToken'
ShortId(name) == <<name, ":", name>>

TemplateNames == <<"SimpleToken", "Escrow", "CollateralLock">>

----------------------------------------------------------------------------
\* The ledger behind the JSON API

PkgName == <<"p1", "p2", "p3", "p4">>

\* GET /packages lists the uploaded packages in upload order.
PackageLists == {[i \in 1..n |-> PkgName[i]] : n \in 0..MaxPackages}

BaseContracts ==
    { [contractId |-> "c1", templateId |-> TemplateId(<<"p1">>, "SimpleToken")],
      [contractId |-> "c2", templateId |-> TemplateId(<<"p1">>, "Escrow")],
      [contractId |-> "c3", templateId |-> TemplateId(<<"p1">>, "CollateralLock")],
      [contractId |-> "c4", templateId |-> TemplateId(<<"p1">>, "Other")] }

NewContractIds == <<"n1", "n2", "n3", "n4">>

Created(l) == l \ BaseContracts

NewContract(l, templateId) ==
    [contractId |-> NewContractIds[Cardinality(Created(l)) + 1], templateId |-> templateId]

\* The error texts of a response that is not ok.
ErrorTexts ==
    { <<"Cannot resolve", " any template ID">>,
      <<"unknownTemplateIds">>,
      <<"invalid ", "templateIds">>,
      <<"unauthorized">> }

Parties ==
    << [displayName |-> <<"Alice">>, identifier |-> <<"Alice", "::1220">>],
       [displayName |-> <<"Bob">>, identifier |-> <<"Bob", "::1220">>] >>

\* The parties with one more, listed before Bob, whose identifier 'Bobby::1220'
\* starts with bob.
MoreParties ==
    << Parties[1],
       [displayName |-> <<"Robert">>, identifier |-> <<"Bob", "by::1220">>],
       Parties[2] >>

\* What GET /parties may list. The list with the extra party is drawn only for
\* the App.js build: login is the same code in both builds, and the sessions of a
\* third party would multiply the states of part_000's overlapping operations.
PartyLists(build) ==
    IF build = "App" THEN { <<>>, Parties, MoreParties } ELSE { <<>>, Parties }

\* What the ledger answers to a request sent with Authorization `Bearer ${auth}`:
\* ok needs a token; every failure is always possible. "net" is fetch rejecting.
Responses(auth) ==
    (IF auth # Null THEN {[kind |-> "ok", text |-> Null]} ELSE {})
    \cup {[kind |-> "err", text |-> x] : x \in ErrorTexts}
    \cup {[kind |-> "net", text |-> Null]}

\* Module:Entity of a fully qualified template id.
QualifiedName(templateId) == SubSeq(templateId, Len(templateId) - 2, Len(templateId))

\* The result of POST /query {templateIds}: the active contracts of the named
\* templates, all of them for an empty list.
QueryResult(templateIds) ==
    IF templateIds = <<>>
    THEN ledger
    ELSE { c \in ledger : \E i \in 1..Len(templateIds) :
             \/ templateIds[i] = c.templateId
             \/ templateIds[i] = QualifiedName(c.templateId) }

FailedToFetch == <<"Failed to fetch">>

NotAuthenticated == <<"Not authenticated">>

----------------------------------------------------------------------------
\* Tasks and the state a turn works on

Slots == 1..MaxTasks

NoTask ==
    [ pc |-> "idle", caller |-> "", auth |-> Null, tids |-> <<>>,
      pkgs |-> <<>>, idx |-> 0, uid |-> Null, party |-> Null, subs |-> <<>> ]

NoResp == [at |-> "", kind |-> "", text |-> Null]

NoEv ==
    [ act |-> "", slot |-> 0, resp |-> NoResp, notes |-> {}, by |-> "",
      results |-> <<>>, rejected |-> <<>>, sent |-> <<>> ]

Turn(act, i, resp) ==
    [ token |-> token, userId |-> userId, partyIdentifier |-> partyIdentifier,
      storage |-> storage, user |-> user, loading |-> loading, error |-> error,
      simpleTokens |-> simpleTokens, escrows |-> escrows,
      collateralLocks |-> collateralLocks,
      ev |-> [NoEv EXCEPT !.act = act, !.slot = i, !.resp = resp] ]

Note(w, n) == [w EXCEPT !.ev.notes = @ \cup {n}]

ApplyWorld(w) ==
    /\ token' = w.token
    /\ userId' = w.userId
    /\ partyIdentifier' = w.partyIdentifier
    /\ storage' = w.storage
    /\ user' = w.user
    /\ loading' = w.loading
    /\ error' = w.error
    /\ simpleTokens' = w.simpleTokens
    /\ escrows' = w.escrows
    /\ collateralLocks' = w.collateralLocks
    /\ ev' = w.ev

Apply(r, i) == ApplyWorld(r.w) /\ tasks' = [tasks EXCEPT ![i] = r.t]

FreeSlot == CHOOSE i \in Slots : tasks[i] = NoTask /\ \A j \in 1..(i - 1) : tasks[j] # NoTask

HasFreeSlot == \E i \in Slots : tasks[i] = NoTask

----------------------------------------------------------------------------
\* App: how the handlers end

\* finally { setLoading(false) } of login, fetchAllContracts and onSubmit
Finally(w) == [w |-> [w EXCEPT !.loading = FALSE], t |-> NoTask]

\* The promise of a direct call of DamlApi settles; no handler of App follows.
Settled(w) == [w |-> w, t |-> NoTask]

\* The chain t sends a request with Authorization `Bearer ${this.token}` and awaits
\* its response at pc; the locals no later line reads are dropped.
Send(w, t, pc, templateIds) ==
    [w |-> w,
     t |-> [NoTask EXCEPT !.pc = pc, !.caller = t.caller, !.auth = w.token,
                          !.tids = templateIds]]

\* part_000 fetchAllContracts: templateId.includes('X:X') || templateId.endsWith(':X:X')
IsTemplate(c, name) ==
    \/ includes(c.templateId, ShortId(name))
    \/ endsWith(c.templateId, <<":">> \o ShortId(name))

Filtered(allContracts, name) == {c \in allContracts : IsTemplate(c, name)}

\* part_000 fetchAllContracts after its one query settled: .catch(() => ({result: []})),
\* the three filters, the three setters, finally setLoading(false).
FetchAllSettled(w, t, rejected, result) ==
    LET allContracts == IF rejected THEN {} ELSE result
    IN  Finally([w EXCEPT !.simpleTokens = Filtered(allContracts, "SimpleToken"),
                          !.escrows = Filtered(allContracts, "Escrow"),
                          !.collateralLocks = Filtered(allContracts, "CollateralLock"),
                          !.ev.notes = @ \cup {"fetched"},
                          !.ev.by = t.caller,
                          !.ev.results = <<allContracts>>,
                          !.ev.rejected = <<rejected>>])

\* queryContracts resolved with `result` or rejected: back in its caller.
QuerySettled(w, t, rejected, result) == FetchAllSettled(w, t, rejected, result)

\* catch (err) of onSubmit (part_000 lines 189-197) and finally
SubmitCatch(w, t, message) ==
    LET errorMsg ==
            IF \/ includes(message, <<"Could not find the correct package ID">>)
               \/ includes(message, <<"DAR file ", "is not uploaded">>)
            THEN message \o <<" Try running daml start in your terminal to upload the DAR file.">>
            ELSE message
    IN  Finally([w EXCEPT !.error = errorMsg, !.ev.notes = @ \cup {"submitCatch"}])

\* Mutant of LoginCatch: the catch of login logs the failure without setError.
LoginCatch_Silent(w, message) ==
    Finally([w EXCEPT !.ev.notes = @ \cup {"loginCatch"}])

\* catch (err) of login (App.js lines 28-33) and finally
LoginCatch(w, message) ==
    Finally([w EXCEPT !.error = message, !.ev.notes = @ \cup {"loginCatch"}])

----------------------------------------------------------------------------
\* DamlApi.createSimpleToken

IsResolutionError(errorMsg) ==
    includes(errorMsg, <<"Cannot resolve">>) \/ includes(errorMsg, <<"unknownTemplateIds">>)

CreateFailed(text) == <<"Create failed: ">> \o text

TriedAll(n) ==
    << "Tried all ", NumStr(n), " packages but none contained SimpleToken template. ",
       "The ", "DAR file ", "might not be uploaded correctly. ",
       "Try running: daml ledger upload-dar --host localhost --port 6865 .daml/dist/hello-canton-0.0.1.dar" >>

RECURSIVE CreateLoop(_, _, _, _)
RECURSIVE CreateLoopCatch(_, _, _, _, _)

\* for (let i = packageIds.length - 1; i >= 0; i--) { createContract(...) }, entered at
\* index i (1-based here), up to the next request or the throw after the loop.
CreateLoop(w, t, packageIds, i) ==
    IF i < 1
    THEN SubmitCatch(w, t, TriedAll(Len(packageIds)))
    ELSE IF w.token = Null
         THEN CreateLoopCatch(Note(w, "createContract:NotAuthenticated"), t, packageIds, i,
                              NotAuthenticated)
         ELSE LET r == Send(w, t, "cr_try", <<TemplateId(<<packageIds[i]>>, "SimpleToken")>>)
              IN  [r EXCEPT !.t.pkgs = packageIds, !.t.idx = i]

\* catch (err) inside the loop: a resolution error continues, anything else is rethrown
CreateLoopCatch(w, t, packageIds, i, errorMsg) ==
    IF IsResolutionError(errorMsg)
    THEN CreateLoop(w, t, packageIds, i - 1)
    ELSE SubmitCatch(w, t, errorMsg)

\* if (!packageId) { const packagesData = await this.getPackages(); ...
CreateDiscover(w, t) ==
    IF w.token = Null
    THEN SubmitCatch(Note(w, "getPackages:NotAuthenticated"), t, NotAuthenticated)
    ELSE Send(w, t, "cr_pkgs", <<>>)

\* catch (err) of the attempt with the cached package id
CreateCachedCatch(w, t, errorMsg) ==
    IF IsResolutionError(errorMsg)
    THEN CreateDiscover([w EXCEPT !.storage.daml_package_id = Null], t)
    ELSE SubmitCatch(w, t, errorMsg)

\* createSimpleToken after `let packageId = await this.findPackageId()`
CreateAfterFind(w, t, packageId) ==
    IF packageId # Null
    THEN IF w.token = Null
         THEN CreateCachedCatch(Note(w, "createContract:NotAuthenticated"), t, NotAuthenticated)
         ELSE Send(w, t, "cr_cached", <<TemplateId(packageId, "SimpleToken")>>)
    ELSE CreateDiscover(w, t)

----------------------------------------------------------------------------
\* DamlApi.queryContracts and DamlApi.findPackageId

\* Mutant of IsQueryFallbackError: every error text starts the fallback query.
IsQueryFallbackError_Any(errorText) == Len(errorText) >= 0

IsQueryFallbackError(errorText) ==
    \/ includes(errorText, <<"templateIds">>)
    \/ includes(errorText, <<"Package ID">>)
    \/ includes(errorText, <<"Cannot resolve">>)

\* Mutant of FallbackFilter: the fallback result is returned unfiltered.
FallbackFilter_All(allContracts) == allContracts

\* the client-side filter of the fallback result
FallbackFilter(allContracts) ==
    { c \in allContracts :
        \/ includes(c.templateId, <<"SimpleToken">>)
        \/ includes(c.templateId, <<"Escrow">>)
        \/ includes(c.templateId, <<"CollateralLock">>) }

\* queryContracts from the response of its request at pc to its next request
\* ("q_fb"), its result ("ok") or its rejection ("rej").
QueryStep(pc, templateIds, resp) ==
    IF pc = "q_main"
    THEN CASE resp.kind = "ok" -> [next |-> "ok", result |-> QueryResult(templateIds)]
           [] resp.kind = "err" /\ IsQueryFallbackError(resp.text) ->
                  [next |-> "q_fb", result |-> {}]
           [] OTHER -> [next |-> "rej", result |-> {}]
    ELSE CASE resp.kind = "ok" -> [next |-> "ok", result |-> FallbackFilter(QueryResult(<<>>))]
           [] resp.kind = "err" -> [next |-> "ok", result |-> {}]
           [] OTHER -> [next |-> "rej", result |-> {}]

\* queryContracts after `const packageId = await this.findPackageId()`
QueryAfterFind(w, t, packageId) ==
    LET finalTemplateIds ==
            IF packageId # Null
            THEN << TemplateId(packageId, "SimpleToken"),
                    TemplateId(packageId, "Escrow"),
                    TemplateId(packageId, "CollateralLock") >>
            ELSE <<>>
    IN  Send(w, t, "q_main", finalTemplateIds)

\* findPackageId returned packageId (or null) to the method that awaited it
FindReturn(w, t, packageId) ==
    IF t.caller = "create"
    THEN CreateAfterFind(w, t, packageId)
    ELSE QueryAfterFind(w, t, packageId)

\* findPackageId line 155: await this.getPackages(); its throw lands in the outer catch
FindGetPackages(w, t) ==
    IF w.token = Null
    THEN FindReturn(Note(w, "getPackages:NotAuthenticated"), t, Null)
    ELSE Send(w, t, "fp_pkgs", <<>>)

\* for (const packageId of packageIds), entered at index i
FindLoop(w, t, packageIds, i) ==
    IF i > Len(packageIds)
    THEN FindReturn(w, t, Null)
    ELSE LET r == Send(w, t, "fp_test", <<TemplateId(<<packageIds[i]>>, "SimpleToken")>>)
         IN  [r EXCEPT !.t.pkgs = packageIds, !.t.idx = i]

\* findPackageId lines 177-181: the test response decides whether to cache
AcceptsPackage(resp) ==
    resp.kind = "ok" \/ (resp.kind = "err" /\ ~IsResolutionError(resp.text))

CachePackage(w, packageId) ==
    [w EXCEPT !.storage.daml_package_id = packageId, !.ev.notes = @ \cup {"cached"}]

\* Mutant of FindStart: the cached id is not consulted.
FindStart_IgnoresCache(w, t) == Send(w, t, "fp_all", <<>>)

\* findPackageId from its call to its first request or its return
FindStart(w, t) ==
    LET cached == w.storage.daml_package_id
    IN  IF cached # Null
        THEN FindReturn(w, t, cached)
        ELSE Send(w, t, "fp_all", <<>>)

\* queryContracts(templateIds) from its call to its first request
QueryStart(w, t, templateIds) ==
    IF w.token = Null
    THEN QuerySettled(Note(w, "queryContracts:NotAuthenticated"), t, TRUE, {})
    ELSE IF templateIds = <<>>
         THEN FindStart(w, t)
         ELSE Send(w, t, "q_main", templateIds)

\* createSimpleToken from its call to its first request
CreateStart(w, t) ==
    IF w.token = Null
    THEN SubmitCatch(Note(w, "createSimpleToken:NotAuthenticated"), t, NotAuthenticated)
    ELSE FindStart(w, [t EXCEPT !.caller = "create"])

----------------------------------------------------------------------------
\* App.fetchAllContracts

\* App.js: the three queryContracts calls of Promise.all, each sending its request
ParallelStart(w, caller) ==
    [w |-> w,
     t |-> [NoTask EXCEPT !.pc = "par", !.caller = caller,
                     !.subs = [k \in 1..3 |->
                                 [pc |-> "q_main", auth |-> w.token,
                                  tids |-> <<ShortId(TemplateNames[k])>>, result |-> {}]]]]

AllSettled(subs) == \A k \in 1..Len(subs) : subs[k].pc \in {"ok", "rej"}

\* damlApi.queryContracts([...]).catch(() => ({ result: [] })), then `.result || []`
Caught(sub) == IF sub.pc = "rej" THEN {} ELSE sub.result

\* Mutant of ParallelSettled: the queries have no .catch, so that one rejection
\* rejects Promise.all and lands in the catch of fetchAllContracts.
ParallelSettled_Uncaught(w, t, subs) ==
    IF \E k \in 1..3 : subs[k].pc = "rej"
    THEN Finally([w EXCEPT !.error = <<"Query failed">>,
                           !.ev.notes = @ \cup {"fetched"},
                           !.ev.by = t.caller,
                           !.ev.results = [k \in 1..3 |-> subs[k].result],
                           !.ev.rejected = [k \in 1..3 |-> subs[k].pc = "rej"]])
    ELSE Finally([w EXCEPT !.simpleTokens = subs[1].result,
                           !.escrows = subs[2].result,
                           !.collateralLocks = subs[3].result,
                           !.ev.notes = @ \cup {"fetched"},
                           !.ev.by = t.caller,
                           !.ev.results = [k \in 1..3 |-> subs[k].result],
                           !.ev.rejected = [k \in 1..3 |-> FALSE]])

\* Mutant of ParallelSettled: the setters append to the lists instead of replacing
\* them.
ParallelSettled_Appends(w, t, subs) ==
    Finally([w EXCEPT !.simpleTokens = @ \cup Caught(subs[1]),
                      !.escrows = @ \cup Caught(subs[2]),
                      !.collateralLocks = @ \cup Caught(subs[3]),
                      !.ev.notes = @ \cup {"fetched"},
                      !.ev.by = t.caller,
                      !.ev.results = [k \in 1..3 |-> subs[k].result],
                      !.ev.rejected = [k \in 1..3 |-> subs[k].pc = "rej"]])

\* App.js lines 58-65 once Promise.all resolved: the three setters, then finally.
\* ev.results and ev.rejected report how each query settled.
ParallelSettled(w, t, subs) ==
    Finally([w EXCEPT !.simpleTokens = Caught(subs[1]),
                      !.escrows = Caught(subs[2]),
                      !.collateralLocks = Caught(subs[3]),
                      !.ev.notes = @ \cup {"fetched"},
                      !.ev.by = t.caller,
                      !.ev.results = [k \in 1..3 |-> subs[k].result],
                      !.ev.rejected = [k \in 1..3 |-> subs[k].pc = "rej"]])

\* fetchAllContracts() is called by caller: the guard, setLoading(true),
\* setError(null) and the queries' first requests. login and onSubmit await it and
\* run their finally when it returns at once; the buttons and useEffect do not.
\* The three queries of App.js remember the handler that called (ev.by reports it
\* when they have settled); the chain of part_000 remembers only that it is
\* fetchAllContracts' and not createSimpleToken's.
FetchAllCall(w, caller) ==
    IF w.token = Null
    THEN IF caller \in {"Login", "Submit"}
         THEN Finally(Note(w, "fetchAll:unauthenticated"))
         ELSE Settled(Note(w, "fetchAll:unauthenticated"))
    ELSE LET w1 == [w EXCEPT !.loading = TRUE, !.error = Null]
         IN  IF app = "App"
             THEN ParallelStart(w1, caller)
             ELSE QueryStart(w1, [NoTask EXCEPT !.caller = "fetchAll"], <<>>)

\* onSubmit after `await damlApi.createSimpleToken(...)` resolved (part_000 186-188)
CreateSucceeded(w) == FetchAllCall(w, "Submit")

----------------------------------------------------------------------------
\* DamlApi.login and DamlApi.logout

\* header.payload. with the payload's userId and actAs / readAs party; the expiry
\* is left out
createSimpleJWT(uid, party) == <<"JWT.">> \o uid \o <<"/">> \o party \o <<".">>

Matches(p, uid) ==
    \/ toLowerCase(p.displayName) = toLowerCase(uid)
    \/ startsWith(toLowerCase(p.identifier), toLowerCase(uid))

\* parties.find(...): the index of the first match, 0 for undefined
FindParty(parties, uid) ==
    IF \E k \in 1..Len(parties) : Matches(parties[k], uid)
    THEN CHOOSE k \in 1..Len(parties) :
             Matches(parties[k], uid) /\ \A j \in 1..(k - 1) : ~Matches(parties[j], uid)
    ELSE 0

\* Mutant of LoginStore: login forgets localStorage.setItem('daml_party_identifier', ...).
LoginStore_ForgetsParty(w, t) ==
    LET jwt == createSimpleJWT(t.uid, t.party)
        w1 == [w EXCEPT !.token = jwt, !.userId = t.uid, !.partyIdentifier = t.party,
                        !.storage.daml_token = jwt,
                        !.storage.daml_user_id = t.uid,
                        !.ev.notes = @ \cup {"loggedIn"}]
    IN  FetchAllCall([w1 EXCEPT !.user = t.uid], "Login")

\* login lines 71-80, then App.login: setUser(userId); await fetchAllContracts()
LoginStore(w, t) ==
    LET jwt == createSimpleJWT(t.uid, t.party)
        w1 == [w EXCEPT !.token = jwt, !.userId = t.uid, !.partyIdentifier = t.party,
                        !.storage.daml_token = jwt,
                        !.storage.daml_user_id = t.uid,
                        !.storage.daml_party_identifier = t.party,
                        !.ev.notes = @ \cup {"loggedIn"}]
    IN  FetchAllCall([w1 EXCEPT !.user = t.uid], "Login")

isAuthenticated == token # Null

\* Mutant of LogoutAll: logout also removes the cached package id.
LogoutAll_ClearsCache(w) ==
    [w EXCEPT !.token = Null, !.userId = Null, !.partyIdentifier = Null,
              !.storage.daml_token = Null,
              !.storage.daml_user_id = Null,
              !.storage.daml_party_identifier = Null,
              !.storage.daml_package_id = Null,
              !.user = Null, !.simpleTokens = {}, !.escrows = {},
              !.collateralLocks = {}, !.error = Null]

\* DamlApi.logout, then App.logout's setters
LogoutAll(w) ==
    [w EXCEPT !.token = Null, !.userId = Null, !.partyIdentifier = Null,
              !.storage.daml_token = Null,
              !.storage.daml_user_id = Null,
              !.storage.daml_party_identifier = Null,
              !.user = Null, !.simpleTokens = {}, !.escrows = {},
              !.collateralLocks = {}, !.error = Null]

----------------------------------------------------------------------------
\* Initial state: the module is loaded (the constructor has read localStorage) and
\* App is rendered with its useState defaults; localStorage is empty or holds what
\* an earlier visit left.

NoStorage ==
    [ daml_token |-> Null, daml_user_id |-> Null, daml_party_identifier |-> Null,
      daml_package_id |-> Null ]

StoredSession ==
    [ NoStorage EXCEPT !.daml_token = createSimpleJWT(<<"alice">>, Parties[1].identifier),
                       !.daml_user_id = <<"alice">>,
                       !.daml_party_identifier = Parties[1].identifier ]

InitialStorages == {NoStorage, StoredSession}

InitOf(build) ==
    /\ app = build
    /\ mounted = FALSE
    /\ storage \in InitialStorages
    /\ token = storage.daml_token
    /\ userId = storage.daml_user_id
    /\ partyIdentifier = storage.daml_party_identifier
    /\ user = Null
    /\ loading = FALSE
    /\ error = Null
    /\ simpleTokens = {}
    /\ escrows = {}
    /\ collateralLocks = {}
    /\ tasks = [i \in Slots |-> NoTask]
    /\ ledger = BaseContracts
    /\ ev = NoEv

----------------------------------------------------------------------------
\* User events

\* useEffect(() => { if (damlApi.isAuthenticated()) { setUser(...); fetchAllContracts() } }, [])
Mount ==
    /\ ~mounted
    /\ mounted' = TRUE
    /\ LET w == Turn("Mount", FreeSlot, NoResp)
       IN  IF token # Null
           THEN Apply(FetchAllCall([w EXCEPT !.user = userId], "Mount"), FreeSlot)
           ELSE Apply(Settled(w), FreeSlot)
    /\ UNCHANGED <<app, ledger>>

\* the two login buttons
Users == {"alice", "bob"}

\* the login buttons: shown while !user, disabled while loading
Login(u) ==
    /\ mounted /\ user = Null /\ ~loading /\ HasFreeSlot
    /\ LET w == Turn("Login", FreeSlot, NoResp)
       IN  Apply([w |-> [w EXCEPT !.loading = TRUE, !.error = Null],
                  t |-> [NoTask EXCEPT !.pc = "lg_parties", !.uid = <<u>>, !.auth = <<u>>]],
                 FreeSlot)
    /\ UNCHANGED <<app, mounted, ledger>>

\* the Logout button: shown while user
Logout ==
    /\ mounted /\ user # Null
    /\ ApplyWorld(LogoutAll(Turn("Logout", 0, NoResp)))
    /\ UNCHANGED <<app, mounted, ledger, tasks>>

\* the Refresh Contracts button: shown while user, disabled while loading
Refresh ==
    /\ mounted /\ user # Null /\ ~loading /\ HasFreeSlot
    /\ Apply(FetchAllCall(Turn("Refresh", FreeSlot, NoResp), "Refresh"), FreeSlot)
    /\ UNCHANGED <<app, mounted, ledger>>

\* the Clear Cache button of part_000: shown while user, never disabled
ClearCache ==
    /\ app = "Part000" /\ mounted /\ user # Null /\ HasFreeSlot
    /\ LET w == Turn("ClearCache", FreeSlot, NoResp)
       IN  Apply(FetchAllCall([w EXCEPT !.storage.daml_package_id = Null], "ClearCache"), FreeSlot)
    /\ UNCHANGED <<app, mounted, ledger>>

\* onSubmit of the creation form of part_000. The form is shown while user (Create
\* Token toggles it); its submit button is disabled only by the submitting flag of
\* the form instance, which Cancel and Create Token replace.
Submit ==
    /\ app = "Part000" /\ mounted /\ user # Null /\ HasFreeSlot
    /\ LET w == Turn("Submit", FreeSlot, NoResp)
       IN  Apply(CreateStart([w EXCEPT !.loading = TRUE, !.error = Null], NoTask), FreeSlot)
    /\ UNCHANGED <<app, mounted, ledger>>

\* A direct call of a method of the exported DamlApi object, made between the
\* operations of App. Without a token every method throws before its request. With
\* one, getPackages, createContract and exerciseChoice send their one request, whose
\* response changes nothing in the client (ev.sent records the request: its path and
\* its Authorization token); queryContracts and createSimpleToken with a token are
\* the calls fetchAllContracts and onSubmit make.
ApiMethods == {"queryContracts", "createContract", "createSimpleToken", "exerciseChoice", "getPackages"}

ApiPath(m) ==
    CASE m = "createContract" -> "/create"
      [] m = "exerciseChoice" -> "/exercise"
      [] m = "getPackages" -> "/packages"
      [] OTHER -> "/query"

\* Mutant of ApiStart: the methods lack their `if (!this.token)` guard.
ApiStart_Unguarded(w, m) ==
    [w EXCEPT !.ev.sent = <<[path |-> ApiPath(m), auth |-> w.token]>>]

ApiStart(w, m) ==
    IF w.token = Null
    THEN Note(Note(w, m \o ":NotAuthenticated"), "rejected")
    ELSE [w EXCEPT !.ev.sent = <<[path |-> ApiPath(m), auth |-> w.token]>>]

ApiCall(m) ==
    /\ mounted /\ \A i \in Slots : tasks[i] = NoTask
    /\ m \in {"queryContracts", "createSimpleToken"} => token = Null
    /\ ApplyWorld(ApiStart(Turn("ApiCall", 0, NoResp), m))
    /\ UNCHANGED <<app, mounted, ledger, tasks>>

----------------------------------------------------------------------------
\* The arrival of the response a call chain awaits

\* The requests whose handler reads the text of a response that is not ok
\* (await response.text()); the other handlers look at response.ok alone.
ReadsText == {"fp_test", "q_main", "cr_cached", "cr_try", "cr_pkgs", "lg_test"}

Resp(pc, r) ==
    [at |-> pc, kind |-> r.kind, text |-> IF pc \in ReadsText THEN r.text ELSE Null]

OnResponse(i, r) == Turn("Response", i, Resp(tasks[i].pc, r))

\* POST /create answers ok by creating the contract
CreateResponses(auth) ==
    {r \in Responses(auth) : r.kind = "ok" => Cardinality(Created(ledger)) < MaxCreates}

LedgerAfterCreate(t, r) ==
    IF r.kind = "ok" THEN ledger \cup {NewContract(ledger, t.tids[1])} ELSE ledger

\* login lines 38-64
LoginParties(w, t, r, parties) ==
    LET k == FindParty(parties, t.uid)
    IN  CASE r.kind = "ok" /\ k = 0 ->
                 LoginCatch(w, <<"Party not found for userId: ">> \o t.uid)
          [] r.kind = "ok" /\ k # 0 ->
                 [w |-> w,
                  t |-> [t EXCEPT !.pc = "lg_test", !.party = parties[k].identifier,
                                  !.auth = createSimpleJWT(t.uid, parties[k].identifier)]]
          [] r.kind = "err" ->
                 LoginCatch(w, <<"Failed to fetch parties. Make sure the JSON API is running.">>)
          [] OTHER -> LoginCatch(w, FailedToFetch)

RespLoginParties(i) ==
    /\ tasks[i].pc = "lg_parties"
    /\ \E r \in Responses(tasks[i].auth), parties \in PartyLists(app) :
           Apply(LoginParties(OnResponse(i, r), tasks[i], r, parties), i)
    /\ UNCHANGED <<app, mounted, ledger>>

\* Mutant of LoginTest: login stores the session before it looks at the test
\* response.
LoginTest_StoresFirst(w, t, r) ==
    LET jwt == createSimpleJWT(t.uid, t.party)
        w1 == [w EXCEPT !.token = jwt, !.userId = t.uid, !.partyIdentifier = t.party,
                        !.storage.daml_token = jwt,
                        !.storage.daml_user_id = t.uid,
                        !.storage.daml_party_identifier = t.party]
    IN  CASE r.kind = "ok" -> LoginStore(w, t)
          [] r.kind = "err" -> LoginCatch(w1, <<"Authentication failed: ">> \o r.text)
          [] OTHER -> LoginCatch(w1, FailedToFetch)

\* login lines 66-80
LoginTest(w, t, r) ==
    CASE r.kind = "ok" -> LoginStore(w, t)
      [] r.kind = "err" -> LoginCatch(w, <<"Authentication failed: ">> \o r.text)
      [] OTHER -> LoginCatch(w, FailedToFetch)

RespLoginTest(i) ==
    /\ tasks[i].pc = "lg_test"
    /\ \E r \in Responses(tasks[i].auth) : Apply(LoginTest(OnResponse(i, r), tasks[i], r), i)
    /\ UNCHANGED <<app, mounted, ledger>>

ContractOrder == <<"c1", "c2", "c3", "c4", "n1", "n2", "n3", "n4">>

Rank(c) == CHOOSE k \in 1..Len(ContractOrder) : ContractOrder[k] = c.contractId

\* the contracts of findPackageId lines 141-150 that end the loop
NamesSimpleToken(c) ==
    LET parts == split(c.templateId)
    IN  Len(parts) = 3 /\ parts[2] = <<"SimpleToken">>

\* findPackageId lines 136-155
FindAll(w, t, r) ==
    LET found == {c \in QueryResult(<<>>) : NamesSimpleToken(c)}
        first == CHOOSE c \in found : \A d \in found : Rank(c) <= Rank(d)
        packageId == split(first.templateId)[1]
    IN  CASE r.kind = "ok" /\ found # {} -> FindReturn(CachePackage(w, packageId), t, packageId)
          [] r.kind = "net" -> FindReturn(w, t, Null)
          [] OTHER -> FindGetPackages(w, t)

RespFindAll(i) ==
    /\ tasks[i].pc = "fp_all"
    /\ \E r \in Responses(tasks[i].auth) : Apply(FindAll(OnResponse(i, r), tasks[i], r), i)
    /\ UNCHANGED <<app, mounted, ledger>>

\* findPackageId lines 155-161: getPackages' response
FindPackages(w, t, r, packageIds) ==
    IF r.kind = "ok" THEN FindLoop(w, t, packageIds, 1) ELSE FindReturn(w, t, Null)

RespFindPackages(i) ==
    /\ tasks[i].pc = "fp_pkgs"
    /\ \E r \in Responses(tasks[i].auth), packageIds \in PackageLists :
           Apply(FindPackages(OnResponse(i, r), tasks[i], r, packageIds), i)
    /\ UNCHANGED <<app, mounted, ledger>>

\* findPackageId lines 174-186
FindTest(w, t, r) ==
    LET packageId == <<t.pkgs[t.idx]>>
    IN  IF r.kind # "net" /\ AcceptsPackage(r)
        THEN FindReturn(CachePackage(w, packageId), t, packageId)
        ELSE FindLoop(w, t, t.pkgs, t.idx + 1)

RespFindTest(i) ==
    /\ tasks[i].pc = "fp_test"
    /\ \E r \in Responses(tasks[i].auth) : Apply(FindTest(OnResponse(i, r), tasks[i], r), i)
    /\ UNCHANGED <<app, mounted, ledger>>

\* queryContracts lines 230-269 for the one query of a chain
QueryResponse(w, t, r) ==
    LET q == QueryStep(t.pc, t.tids, r)
    IN  IF q.next = "q_fb"
        THEN Send(w, t, "q_fb", <<>>)
        ELSE QuerySettled(w, t, q.next = "rej", q.result)

RespQuery(i) ==
    /\ tasks[i].pc = "q_main"
    /\ \E r \in Responses(tasks[i].auth) : Apply(QueryResponse(OnResponse(i, r), tasks[i], r), i)
    /\ UNCHANGED <<app, mounted, ledger>>

RespFallback(i) ==
    /\ tasks[i].pc = "q_fb"
    /\ \E r \in Responses(tasks[i].auth) : Apply(QueryResponse(OnResponse(i, r), tasks[i], r), i)
    /\ UNCHANGED <<app, mounted, ledger>>

\* Mutant of ParallelResponse: each query sets its list as soon as it settles.
ParallelResponse_Eager(w, t, k, r) ==
    LET sub == t.subs[k]
        q == QueryStep(sub.pc, sub.tids, r)
        next == IF q.next = "q_fb"
                THEN [pc |-> "q_fb", auth |-> w.token, tids |-> <<>>, result |-> {}]
                ELSE [sub EXCEPT !.pc = q.next, !.result = q.result]
        subs == [t.subs EXCEPT ![k] = next]
        w1 == CASE q.next = "q_fb" -> w
                [] k = 1 -> [w EXCEPT !.simpleTokens = Caught(next)]
                [] k = 2 -> [w EXCEPT !.escrows = Caught(next)]
                [] OTHER -> [w EXCEPT !.collateralLocks = Caught(next)]
    IN  IF AllSettled(subs)
        THEN ParallelSettled(w1, t, subs)
        ELSE [w |-> w1, t |-> [t EXCEPT !.subs = subs]]

\* queryContracts lines 230-269 for query k of the three of App.js
ParallelResponse(w, t, k, r) ==
    LET sub == t.subs[k]
        q == QueryStep(sub.pc, sub.tids, r)
        next == IF q.next = "q_fb"
                THEN [pc |-> "q_fb", auth |-> w.token, tids |-> <<>>, result |-> {}]
                ELSE [sub EXCEPT !.pc = q.next, !.result = q.result]
        subs == [t.subs EXCEPT ![k] = next]
    IN  IF AllSettled(subs)
        THEN ParallelSettled(w, t, subs)
        ELSE [w |-> w, t |-> [t EXCEPT !.subs = subs]]

RespParallel(i, k) ==
    /\ tasks[i].pc = "par"
    /\ tasks[i].subs[k].pc \in {"q_main", "q_fb"}
    /\ \E r \in Responses(tasks[i].subs[k].auth) :
           LET w == Turn("Response", i, Resp(tasks[i].subs[k].pc, r))
           IN  Apply(ParallelResponse(w, tasks[i], k, r), i)
    /\ UNCHANGED <<app, mounted, ledger>>

\* createSimpleToken lines 309-325: the attempt with the package id findPackageId gave
CreateCached(w, t, r) ==
    CASE r.kind = "ok" -> CreateSucceeded(Note(w, "created"))
      [] r.kind = "err" -> CreateCachedCatch(w, t, CreateFailed(r.text))
      [] OTHER -> CreateCachedCatch(w, t, FailedToFetch)

RespCreateCached(i) ==
    /\ tasks[i].pc = "cr_cached"
    /\ \E r \in CreateResponses(tasks[i].auth) :
           /\ Apply(CreateCached(OnResponse(i, r), tasks[i], r), i)
           /\ ledger' = LedgerAfterCreate(tasks[i], r)
    /\ UNCHANGED <<app, mounted>>

\* Mutant of CreatePackages: the loop over the packages starts at the first one.
CreatePackages_FromFirst(w, t, r, packageIds) ==
    CASE r.kind = "ok" -> CreateLoop(w, t, packageIds, IF packageIds = <<>> THEN 0 ELSE 1)
      [] r.kind = "err" -> SubmitCatch(w, t, <<"Failed to fetch packages: ">> \o r.text)
      [] OTHER -> SubmitCatch(w, t, FailedToFetch)

\* createSimpleToken lines 330-337: getPackages' response
CreatePackages(w, t, r, packageIds) ==
    CASE r.kind = "ok" -> CreateLoop(w, t, packageIds, Len(packageIds))
      [] r.kind = "err" -> SubmitCatch(w, t, <<"Failed to fetch packages: ">> \o r.text)
      [] OTHER -> SubmitCatch(w, t, FailedToFetch)

RespCreatePackages(i) ==
    /\ tasks[i].pc = "cr_pkgs"
    /\ \E r \in Responses(tasks[i].auth), packageIds \in PackageLists :
           Apply(CreatePackages(OnResponse(i, r), tasks[i], r, packageIds), i)
    /\ UNCHANGED <<app, mounted, ledger>>

\* Mutant of CreateTry: a successful attempt caches the package but does not
\* return, so that the loop goes on to the next package.
CreateTry_KeepsTrying(w, t, r) ==
    CASE r.kind = "ok" ->
             CreateLoop(Note(CachePackage(w, <<t.pkgs[t.idx]>>), "created"), t, t.pkgs, t.idx - 1)
      [] r.kind = "err" -> CreateLoopCatch(w, t, t.pkgs, t.idx, CreateFailed(r.text))
      [] OTHER -> CreateLoopCatch(w, t, t.pkgs, t.idx, FailedToFetch)

\* createSimpleToken lines 341-360: the response to the attempt with packageIds[i]
CreateTry(w, t, r) ==
    CASE r.kind = "ok" ->
             CreateSucceeded(Note(CachePackage(w, <<t.pkgs[t.idx]>>), "created"))
      [] r.kind = "err" -> CreateLoopCatch(w, t, t.pkgs, t.idx, CreateFailed(r.text))
      [] OTHER -> CreateLoopCatch(w, t, t.pkgs, t.idx, FailedToFetch)

RespCreateTry(i) ==
    /\ tasks[i].pc = "cr_try"
    /\ \E r \in CreateResponses(tasks[i].auth) :
           /\ Apply(CreateTry(OnResponse(i, r), tasks[i], r), i)
           /\ ledger' = LedgerAfterCreate(tasks[i], r)
    /\ UNCHANGED <<app, mounted>>

\* frontend/src/App.js on services/damlApi.js
InitApp == InitOf("App")

NextApp ==
    \/ Mount
    \/ \E u \in Users : Login(u)
    \/ Logout
    \/ Refresh
    \/ \E m \in ApiMethods : ApiCall(m)
    \/ \E i \in Slots : RespLoginParties(i)
    \/ \E i \in Slots : RespLoginTest(i)
    \/ \E i \in Slots, k \in 1..3 : RespParallel(i, k)

SpecApp == InitApp /\ [][NextApp]_vars

\* the App component of part_000 on services/damlApi.js
InitPart000 == InitOf("Part000")

NextPart000 ==
    \/ Mount
    \/ \E u \in Users : Login(u)
    \/ Logout
    \/ Refresh
    \/ ClearCache
    \/ Submit
    \/ \E m \in ApiMethods : ApiCall(m)
    \/ \E i \in Slots : RespLoginParties(i)
    \/ \E i \in Slots : RespLoginTest(i)
    \/ \E i \in Slots : RespFindAll(i)
    \/ \E i \in Slots : RespFindPackages(i)
    \/ \E i \in Slots : RespFindTest(i)
    \/ \E i \in Slots : RespQuery(i)
    \/ \E i \in Slots : RespFallback(i)
    \/ \E i \in Slots : RespCreateCached(i)
    \/ \E i \in Slots : RespCreatePackages(i)
    \/ \E i \in Slots : RespCreateTry(i)

SpecPart000 == InitPart000 /\ [][NextPart000]_vars

----------------------------------------------------------------------------
\* Properties

Lists == <<simpleTokens, escrows, collateralLocks>>

\* the templateId of c is <package>:name:name
NamesTemplate(c, name) == QualifiedName(c.templateId) = ShortId(name)

FetchCompleted == "fetched" \in ev.notes

\* the requests in flight of task t of App.js's three
Pending(t) == {k \in 1..Len(t.subs) : t.subs[k].pc \in {"q_main", "q_fb"}}

\* C1: after a completed fetchAllContracts, simpleTokens holds only SimpleToken
\* contracts, escrows only Escrow contracts, collateralLocks only CollateralLock
\* contracts, and no contract is in two of the lists.
C1_ListsHoldTheirTemplate ==
    FetchCompleted =>
        /\ \A k \in 1..3 : \A c \in Lists[k] : NamesTemplate(c, TemplateNames[k])
        /\ \A k \in 1..3 : \A j \in 1..3 : k # j => Lists[k] \cap Lists[j] = {}

\* C2: with the three parallel queries of App.js, a response that leaves one of the
\* three still unsettled changes none of the lists; the lists change only with the
\* response that settles the last one, and then all three are set at once.
C2_ListsWaitForAllThree ==
    [][\A i \in Slots :
         (tasks[i].pc = "par" /\ ev'.act = "Response" /\ ev'.slot = i) =>
             IF tasks'[i].pc = "par"
             THEN UNCHANGED <<simpleTokens, escrows, collateralLocks>>
             ELSE /\ Cardinality(Pending(tasks[i])) = 1
                  /\ "fetched" \in ev'.notes
                  /\ \A k \in 1..3 : ~ev'.rejected[k] => Lists'[k] = ev'.results[k]]_vars

\* C2 witness: the SimpleToken query has settled with a contract, the Escrow query
\* is still in flight, and simpleTokens does not show the contract yet.
C2_Witness ==
    \E i \in Slots :
        /\ tasks[i].pc = "par"
        /\ tasks[i].subs[1].pc = "ok" /\ tasks[i].subs[1].result # {}
        /\ tasks[i].subs[2].pc = "q_main"
        /\ simpleTokens = {}

\* C3: when fetchAllContracts completes with some query rejected, the list of each
\* rejected query is empty, the list of each other query holds its result, error is
\* null and loading is false.
C3_RejectedQueryDefaultsToEmpty ==
    (FetchCompleted /\ \E k \in 1..3 : ev.rejected[k]) =>
        /\ \A k \in 1..3 : Lists[k] = IF ev.rejected[k] THEN {} ELSE ev.results[k]
        /\ error = Null
        /\ loading = FALSE

\* C3 witness: the SimpleToken query was rejected, the Escrow query returned a
\* contract.
C3_Witness ==
    /\ FetchCompleted
    /\ ev.rejected[1] /\ ~ev.rejected[2]
    /\ simpleTokens = {} /\ escrows # {}

FailedResponse == ev.act = "Response" /\ ev.resp.kind \in {"err", "net"}

\* C4 as stated: after a failed response to a request of a query or a create
\* operation, the chain that awaited it sends no further request.
C4_NoRequestAfterFailure ==
    ( /\ FailedResponse
      /\ ev.resp.at \in {"fp_all", "fp_pkgs", "fp_test", "q_main", "q_fb",
                         "cr_cached", "cr_pkgs", "cr_try"} ) =>
        tasks[ev.slot] = NoTask

\* C4 amended: a failed request is followed by a further request only where the
\* code retries. The primary query failing with a text that contains 'templateIds',
\* 'Package ID' or 'Cannot resolve' is followed by the fallback query; a /create
\* failing with a text that contains 'Cannot resolve' or 'unknownTemplateIds' is
\* followed by /packages or by the /create of the next package, if by anything.
\* Every other failure of the primary query, of the fallback query, of /create and
\* of the /packages of createSimpleToken ends the operation.
C4_RetriesOnlyOnMarkers ==
    FailedResponse =>
        LET t == tasks[ev.slot]
            text == ev.resp.text
            queryMarker ==
                /\ ev.resp.kind = "err"
                /\ \/ includes(text, <<"templateIds">>)
                   \/ includes(text, <<"Package ID">>)
                   \/ includes(text, <<"Cannot resolve">>)
            createMarker ==
                /\ ev.resp.kind = "err"
                /\ \/ includes(text, <<"Cannot resolve">>)
                   \/ includes(text, <<"unknownTemplateIds">>)
        IN  CASE ev.resp.at = "q_main" ->
                     IF queryMarker THEN t.pc = "q_fb" /\ t.tids = <<>> ELSE t = NoTask
              [] ev.resp.at = "q_fb" -> t = NoTask
              [] ev.resp.at = "cr_cached" ->
                     IF createMarker THEN t.pc \in {"cr_pkgs", "idle"} ELSE t = NoTask
              [] ev.resp.at = "cr_try" ->
                     IF createMarker THEN t.pc \in {"cr_try", "idle"} ELSE t = NoTask
              [] ev.resp.at = "cr_pkgs" -> t = NoTask
              [] OTHER -> TRUE

\* C4 witness: the primary query failed with 'Cannot resolve any template ID' and
\* its chain now awaits the fallback query.
C4_Witness ==
    /\ FailedResponse
    /\ ev.resp.at = "q_main"
    /\ ev.resp.text = <<"Cannot resolve", " any template ID">>
    /\ tasks[ev.slot].pc = "q_fb"

\* C5: every request to /query, /create and /packages in flight was sent with a
\* token (its Authorization header is never `Bearer null`).
C5_RequestsCarryAToken ==
    \A i \in Slots :
        tasks[i].pc \in {"fp_all", "fp_pkgs", "fp_test", "q_main", "q_fb",
                         "cr_cached", "cr_pkgs", "cr_try"} =>
            tasks[i].auth # Null

\* C6: a method of DamlApi called without a token throws 'Not authenticated', sends
\* no request and leaves the session fields, localStorage and the chains in flight
\* as they were; fetchAllContracts called without a token sends no request and
\* leaves user, error and the three lists as they were.
C6_NoTokenNoEffect ==
    [][/\ (token = Null /\ ev'.act = "ApiCall") =>
              /\ "rejected" \in ev'.notes
              /\ \E m \in ApiMethods : (m \o ":NotAuthenticated") \in ev'.notes
              /\ ev'.sent = <<>>
              /\ UNCHANGED <<token, userId, partyIdentifier, storage, tasks>>
       /\ "fetchAll:unauthenticated" \in ev'.notes =>
              /\ tasks'[ev'.slot] = NoTask
              /\ UNCHANGED <<user, error, simpleTokens, escrows, collateralLocks>>]_vars

\* C6 witness: createSimpleToken was called after a logout that left the package
\* id in localStorage, and threw.
C6_Witness ==
    /\ ev.act = "ApiCall"
    /\ "createSimpleToken:NotAuthenticated" \in ev.notes
    /\ storage.daml_package_id # Null
    /\ token = Null

\* C7: when a fetch started by the Refresh button completes, each list holds
\* exactly what its query returned (nothing for a rejected query), so that nothing
\* of an earlier fetch remains.
C7_RefreshReplacesLists ==
    (FetchCompleted /\ ev.by = "Refresh") =>
        /\ \A k \in 1..3 : ~ev.rejected[k] => Lists[k] = ev.results[k]
        /\ \A k \in 1..3 : \A c \in Lists[k] : ~ev.rejected[k] /\ c \in ev.results[k]

\* C7 witness: a refresh completed whose SimpleToken query returned nothing while
\* its Escrow query returned a contract.
C7_Witness ==
    /\ FetchCompleted /\ ev.by = "Refresh"
    /\ ~ev.rejected[1] /\ ev.results[1] = {} /\ simpleTokens = {}
    /\ escrows # {}

\* C8: token, userId and partyIdentifier of DamlApi equal daml_token, daml_user_id
\* and daml_party_identifier of localStorage; the turn that completes a login
\* leaves all three set, a logout leaves all three absent and isAuthenticated()
\* false.
C8_SessionMirrorsStorage ==
    /\ token = storage.daml_token
    /\ userId = storage.daml_user_id
    /\ partyIdentifier = storage.daml_party_identifier
    /\ "loggedIn" \in ev.notes =>
           token # Null /\ userId # Null /\ partyIdentifier # Null
    /\ ev.act = "Logout" =>
           token = Null /\ userId = Null /\ partyIdentifier = Null /\ ~isAuthenticated

\* C8 witness: bob has just logged in.
C8_Witness ==
    /\ "loggedIn" \in ev.notes
    /\ userId = <<"bob">>
    /\ storage.daml_party_identifier = <<"Bob", "::1220">>

\* C9: after the response that reports a /create as successful, the chain of that
\* submission awaits no /create and no /packages of createSimpleToken again: it is
\* done or it is the fetchAllContracts that follows, which never creates.
C9_NoCreateAfterSuccess ==
    /\ (ev.act = "Response" /\ ev.resp.at \in {"cr_cached", "cr_try"} /\ ev.resp.kind = "ok") =>
           /\ "created" \in ev.notes
           /\ tasks[ev.slot].pc \notin {"cr_cached", "cr_pkgs", "cr_try"}
           /\ tasks[ev.slot].caller # "create"
    /\ \A i \in Slots :
           tasks[i].pc \in {"cr_cached", "cr_pkgs", "cr_try"} => tasks[i].caller = "create"

\* C9 witness: a /create of the loop over the packages succeeded and the chain
\* went on to fetchAllContracts.
C9_Witness ==
    /\ ev.act = "Response" /\ ev.resp.at = "cr_try" /\ ev.resp.kind = "ok"
    /\ tasks[ev.slot].caller = "fetchAll"
    /\ Cardinality(Created(ledger)) = 1

\* C10: findPackageId caches a package id tested with a query only if the ledger
\* answered that query ok, that is, resolved <id>:SimpleToken:SimpleToken.
C10_CachesOnlyResolvedPackage ==
    ("cached" \in ev.notes /\ ev.resp.at = "fp_test") => ev.resp.kind = "ok"

\* the catch of App.login or of onSubmit ran in the turn that led to this state
LoginFailed == "loginCatch" \in ev.notes

SubmitFailed == "submitCatch" \in ev.notes

C12_LoginStoresOnlyAtTheEnd ==
    [][\A i \in Slots :
         (ev'.act = "Response" /\ ev'.slot = i /\ tasks[i].pc \in {"lg_parties", "lg_test"}) =>
             LET t == tasks[i]
             IN  IF t.pc = "lg_test" /\ ev'.resp.kind = "ok"
                 THEN /\ t.party # Null
                      /\ t.auth = createSimpleJWT(t.uid, t.party)
                      /\ token' = t.auth
                      /\ userId' = t.uid
                      /\ partyIdentifier' = t.party
                      /\ storage' = [storage EXCEPT !.daml_token = t.auth,
                                                    !.daml_user_id = t.uid,
                                                    !.daml_party_identifier = t.party]
                      /\ ~LoginFailed'
                 ELSE /\ UNCHANGED <<token, userId, partyIdentifier, storage>>
                      /\ \/ /\ t.pc = "lg_parties" /\ ev'.resp.kind = "ok"
                            /\ tasks'[i].pc = "lg_test"
                            /\ ~LoginFailed'
                         \/ LoginFailed' /\ tasks'[i] = NoTask]_vars

\* C12 witness: the test request of a login failed after its first request had
\* found a party; no session is stored.
C12_Witness ==
    /\ LoginFailed
    /\ ev.resp.at = "lg_test"
    /\ token = Null /\ storage.daml_token = Null
    /\ storage.daml_user_id = Null /\ storage.daml_party_identifier = Null

\* C13: the party whose identifier a login stores and puts in its token is one
\* whose displayName equals the userId ignoring case, whenever the party list
\* answered to the login held such a party. (Every list of the model that holds
\* a party named Bob or Alice holds one such party, with identifier <Name>::1220.)
C13_StoresThePartyNamedLikeTheUser ==
    "loggedIn" \in ev.notes =>
        \E k \in 1..Len(Parties) :
            /\ toLowerCase(Parties[k].displayName) = toLowerCase(userId)
            /\ partyIdentifier = Parties[k].identifier
            /\ token = createSimpleJWT(userId, Parties[k].identifier)

\* C14: createSimpleToken's loop over the listed packages. After /packages the
\* first /create names the last package. A /create failing with 'Cannot resolve'
\* or 'unknownTemplateIds' is followed by the /create of the package before it, or,
\* after the first package, by the 'Tried all N packages' error; any other failure
\* is shown at once and nothing more is tried; in both cases localStorage is not
\* written. A /create that succeeds stores exactly its package id in
\* daml_package_id and no other package is tried.
C14_TriesPackagesLastToFirst ==
    [][\A i \in Slots :
         (ev'.act = "Response" /\ ev'.slot = i /\ tasks[i].pc \in {"cr_pkgs", "cr_try"}) =>
             LET t == tasks[i]
                 n == tasks'[i]
                 kind == ev'.resp.kind
                 text == ev'.resp.text
                 resolution ==
                     /\ kind = "err"
                     /\ \/ includes(text, <<"Cannot resolve">>)
                        \/ includes(text, <<"unknownTemplateIds">>)
                 tries(packageIds, k) ==
                     IF token = Null
                     THEN n = NoTask /\ error' = <<"Not authenticated">>
                     ELSE /\ n.pc = "cr_try" /\ n.pkgs = packageIds /\ n.idx = k
                          /\ n.tids = <<<<packageIds[k], ":", "SimpleToken", ":", "SimpleToken">>>>
                 triedAll(count) ==
                     /\ n = NoTask
                     /\ Len(error') = 7 /\ error'[1] = "Tried all " /\ error'[2] = count
             IN  CASE t.pc = "cr_pkgs" /\ kind = "ok" ->
                        /\ storage' = storage
                        /\ \/ triedAll("0")
                           \/ n.pkgs # <<>> /\ tries(n.pkgs, Len(n.pkgs))
                           \/ token = Null /\ tries(<<>>, 0)
                   [] t.pc = "cr_pkgs" -> storage' = storage /\ n = NoTask /\ SubmitFailed'
                   [] kind = "ok" ->
                        /\ storage' = [storage EXCEPT !.daml_package_id = <<t.pkgs[t.idx]>>]
                        /\ n.pc \notin {"cr_cached", "cr_pkgs", "cr_try"}
                        /\ ~SubmitFailed'
                   [] resolution ->
                        /\ storage' = storage
                        /\ IF t.idx > 1
                           THEN tries(t.pkgs, t.idx - 1)
                           ELSE triedAll(NumStr(Len(t.pkgs)))
                   [] OTHER ->
                        /\ storage' = storage
                        /\ n = NoTask
                        /\ error' = IF kind = "err" THEN <<"Create failed: ">> \o text
                                                    ELSE <<"Failed to fetch">>]_vars

\* C14 witness: of two packages the last one failed with a resolution error and
\* the /create of the first is in flight; nothing is cached.
C14_Witness ==
    /\ ev.act = "Response" /\ ev.resp.at = "cr_try"
    /\ ev.resp.text = <<"unknownTemplateIds">>
    /\ tasks[ev.slot].pc = "cr_try"
    /\ Len(tasks[ev.slot].pkgs) = 2 /\ tasks[ev.slot].idx = 1
    /\ storage.daml_package_id = Null

\* C15: queryContracts' fallback. A primary /query answered not ok with a text
\* containing 'templateIds', 'Package ID' or 'Cannot resolve' is followed by one
\* /query with empty templateIds; that query's ok answer is returned cut down to
\* the contracts whose templateId contains SimpleToken, Escrow or CollateralLock,
\* its not-ok answer gives an empty result, and neither throws. Any other not-ok
\* answer of the primary query makes queryContracts throw with no further request.
C15_FallbackQuery ==
    [][\A i \in Slots :
         (ev'.act = "Response" /\ ev'.slot = i /\ tasks[i].pc \in {"q_main", "q_fb"}
            /\ ev'.resp.kind # "net") =>
             LET n == tasks'[i]
                 kind == ev'.resp.kind
                 text == ev'.resp.text
                 marked ==
                     \/ includes(text, <<"templateIds">>)
                     \/ includes(text, <<"Package ID">>)
                     \/ includes(text, <<"Cannot resolve">>)
                 named(c) ==
                     \E k \in 1..Len(c.templateId) :
                         c.templateId[k] \in {"SimpleToken", "Escrow", "CollateralLock"}
                 returns(contracts) ==
                     /\ n = NoTask
                     /\ ev'.rejected = <<FALSE>>
                     /\ ev'.results = <<contracts>>
             IN  CASE tasks[i].pc = "q_main" /\ kind = "err" /\ marked ->
                        /\ n.pc = "q_fb" /\ n.tids = <<>>
                        /\ "fetched" \notin ev'.notes
                   [] tasks[i].pc = "q_main" /\ kind = "err" ->
                        /\ n = NoTask
                        /\ ev'.rejected = <<TRUE>>
                   [] tasks[i].pc = "q_fb" /\ kind = "ok" ->
                        returns({c \in ledger : named(c)})
                   [] tasks[i].pc = "q_fb" /\ kind = "err" ->
                        returns({})
                   [] OTHER -> n = NoTask /\ ev'.rejected = <<FALSE>>]_vars

\* C15 witness: a fallback query was answered ok while the ledger held a contract
\* of another template, and the result has the three named contracts only.
C15_Witness ==
    /\ ev.act = "Response" /\ ev.resp.at = "q_fb" /\ ev.resp.kind = "ok"
    /\ \E c \in ledger : c.contractId = "c4"
    /\ ev.rejected = <<FALSE>>
    /\ {c.contractId : c \in ev.results[1]} = {"c1", "c2", "c3"}

\* C16: findPackageId never throws and writes daml_package_id only with the id
\* it returns. A turn in which it sends its first request found no cached id, and
\* a query that starts without such a request names the cached id. A turn on one
\* of its own responses either goes on searching or returns null, both without
\* writing localStorage, or stores one package id and hands that id to its caller:
\* queryContracts then queries the three templates of that package (all templates
\* for null), createSimpleToken creates with it (lists the packages for null).
C16_FindPackageIdCachesWhatItReturns ==
    [][\A i \in Slots :
         LET t == tasks[i]
             n == tasks'[i]
             find == {"fp_all", "fp_pkgs", "fp_test"}
             of(packageId, name) == packageId \o <<":", name, ":", name>>
             three(packageId) ==
                 <<of(packageId, "SimpleToken"), of(packageId, "Escrow"),
                   of(packageId, "CollateralLock")>>
             returned(packageId) ==
                 IF t.caller = "create"
                 THEN IF token = Null
                      THEN n = NoTask /\ error' = <<"Not authenticated">>
                      ELSE IF packageId # Null
                           THEN n.pc = "cr_cached" /\ n.tids = <<of(packageId, "SimpleToken")>>
                           ELSE n.pc = "cr_pkgs"
                 ELSE /\ n.pc = "q_main"
                      /\ n.tids = IF packageId # Null THEN three(packageId) ELSE <<>>
         IN  /\ (n.pc \in find /\ t.pc \notin find) => storage'.daml_package_id = Null
             /\ (n.pc = "q_main" /\ t.pc \notin find \cup {"q_main"}) =>
                    /\ storage'.daml_package_id # Null
                    /\ n.tids = three(storage'.daml_package_id)
             /\ (ev'.act = "Response" /\ ev'.slot = i /\ t.pc \in find) =>
                    \/ storage' = storage /\ n.pc \in {"fp_pkgs", "fp_test"}
                    \/ storage' = storage /\ returned(Null)
                    \/ \E k \in 1..Len(PkgName) :
                          /\ storage' = [storage EXCEPT !.daml_package_id = <<PkgName[k]>>]
                          /\ returned(<<PkgName[k]>>)]_vars

\* C16 witness: a refresh found the cached id p2 and its query names p2's
\* templates without any request of findPackageId.
C16_Witness ==
    /\ ev.act = "Refresh"
    /\ storage.daml_package_id = <<"p2">>
    /\ tasks[ev.slot].pc = "q_main"
    /\ tasks[ev.slot].tids[1] = <<"p2", ":", "SimpleToken", ":", "SimpleToken">>

\* C17: when createSimpleToken has tried all packages and none contained the
\* SimpleToken template, the error shown is its 'Tried all N packages' message
\* followed by the hint to run daml start.
C17_TriedAllGetsTheHint ==
    (SubmitFailed /\ error # Null /\ error[1] = "Tried all ") =>
        endsWith(error, <<" Try running daml start in your terminal to upload the DAR file.">>)

\* C18: whenever user is null, that is while the login screen is shown,
\* simpleTokens, escrows and collateralLocks are all empty.
C18_NoContractsWithoutUser ==
    user = Null => (simpleTokens = {} /\ escrows = {} /\ collateralLocks = {})

\* C19: loading is true in every state in which a login, a contract fetch or a
\* token creation is still in flight.
C19_LoadingWhileInFlight ==
    (\E i \in Slots : tasks[i] # NoTask) => loading

\* C20: logout leaves daml_package_id as it was while removing the three session
\* keys. A cached id is removed only by Clear Cache or by createSimpleToken when
\* the /create with the cached id fails with 'Cannot resolve' or
\* 'unknownTemplateIds'; the fetch that follows a completed login, whoever logs
\* in, queries the templates of the id found in the cache.
C20_LogoutKeepsThePackageId ==
    [][/\ ev'.act = "Logout" =>
            /\ storage'.daml_package_id = storage.daml_package_id
            /\ storage'.daml_token = Null
            /\ storage'.daml_user_id = Null
            /\ storage'.daml_party_identifier = Null
       /\ (storage.daml_package_id # Null /\ storage'.daml_package_id = Null) =>
            \/ ev'.act = "ClearCache"
            \/ /\ ev'.act = "Response" /\ ev'.resp.at = "cr_cached" /\ ev'.resp.kind = "err"
               /\ \/ includes(ev'.resp.text, <<"Cannot resolve">>)
                  \/ includes(ev'.resp.text, <<"unknownTemplateIds">>)
       /\ ("loggedIn" \in ev'.notes /\ storage.daml_package_id # Null) =>
            /\ storage'.daml_package_id = storage.daml_package_id
            /\ tasks'[ev'.slot].pc = "q_main"
            /\ tasks'[ev'.slot].tids[1] =
                   storage.daml_package_id \o <<":", "SimpleToken", ":", "SimpleToken">>]_vars

\* C20 witness: bob's login completed while the cache held the id p1 that a
\* session before his had stored, and his first query names p1's templates.
C20_Witness ==
    /\ "loggedIn" \in ev.notes /\ userId = <<"bob">>
    /\ storage.daml_package_id = <<"p1">>
    /\ tasks[ev.slot].pc = "q_main"
    /\ tasks[ev.slot].tids[1] = <<"p1", ":", "SimpleToken", ":", "SimpleToken">>

====
